---- MODULE Spec2Model ----
(***************************************************************************)
(* Real-time layer of workplace-connect-server: the socket.io connection   *)
(* registry (userSockets), the handshake authenticator, the rooms of the   *)
(* socket.io adapter and the send-message / join-group / leave-group       *)
(* handlers of src/services/socket.service.ts, with the MessageService     *)
(* they call.                                                              *)
(***************************************************************************)
EXTENDS Naturals, Sequences, FiniteSets, TLC

(* ---------------------------- universes ------------------------------- *)

\* socket ids handed out by socket.io; every id belongs to one transport session
SocketIds == {"s1", "s2", "s3"}

\* documents of the users collection
ExistingUsers == {"u1", "u2"}

\* subjects a signed token can carry: the users plus one id with no document
TokenSubjects == ExistingUsers \cup {"u9"}

\* handshake.auth.token: absent, not verifiable, or signed for a subject
Tokens == {[kind |-> "none", id |-> "-"], [kind |-> "invalid", id |-> "-"]}
          \cup {[kind |-> "signed", id |-> u] : u \in TokenSubjects}

\* ids of the groups collection
GroupIds == {"g1"}

\* strings that cast to an ObjectId
ObjectIds == ExistingUsers \cup {"u9"} \cup GroupIds

\* the creator of every group; the pre-save hook makes the creator a member
Creator == "u1"

\* number of handlers that may be suspended in an await at the same time
MaxTasks == 1

\* number of message documents the store may hold
MaxMessages == 1

\* number of repeated disconnect signals delivered for closed sockets
MaxDuplicates == 1

\* number of send-message commands of one socket in flight at the same time
MaxPipelined == 2

\* number of delete requests for one message in progress at the same time
MaxRequests == 2

NoUser == "-"

(* ------------------------------ state --------------------------------- *)

VARIABLES
  sock,         \* socket id -> "new" | "auth" | "connected" | "closed" | "refused"
  token,        \* socket id -> socket.handshake.auth.token (NoToken before the handshake)
  userId,       \* socket id -> socket.userId (NoUser while unset)
  userSockets,  \* the Map userId -> socketIds[]; its DOMAIN is the key set
  rooms,        \* adapter rooms: room name -> set of socket ids
  groups,       \* groups collection: group id -> [exists, members]
  messages,     \* messages collection: sequence of documents
  tasks,        \* handlers suspended in an await
  out,          \* the emit calls made by the last step, in order
  last,         \* the last step: [op, sock, arg]
  dups          \* number of repeated disconnect signals delivered so far

vars == <<sock, token, userId, userSockets, rooms, groups, messages, tasks,
          out, last, dups>>

(* ------------------------- socket.io primitives ----------------------- *)

\* room name of a group: `group:${groupId}`
GroupRoom(g) == "group:" \o g

\* s1 < s2 < s3: the order in which socket.io hands out the ids
RankBefore(x, y) == <<x, y>> \in {<<"s1", "s2">>, <<"s1", "s3">>, <<"s2", "s3">>}

\* every room name the handlers can address
RoomNames == ExistingUsers \cup {GroupRoom(g) : g \in ObjectIds} \cup SocketIds

\* the sockets of the namespace (nsp.sockets)
ConnectedIn(sk) == {s \in SocketIds : sk[s] = "connected"}

Members(rm, r) == IF r \in DOMAIN rm THEN rm[r] ELSE {}

\* one emit call: event name, addressed room, sockets it is written to, payload
Emit(ev, target, rcpt, arg) ==
  [ev |-> ev, target |-> target, rcpt |-> rcpt, arg |-> arg]

\* io.emit(ev, arg): every socket of the namespace
IoEmit(sk, ev, arg) == Emit(ev, "*", ConnectedIn(sk), arg)

IoTo_all(sk, rm, room, ev, arg) == Emit(ev, room, ConnectedIn(sk), arg)

\* io.to(room).emit(ev, arg)
IoTo(sk, rm, room, ev, arg) ==
  Emit(ev, room, Members(rm, room) \cap ConnectedIn(sk), arg)

SocketTo_io(sk, rm, s, room, ev, arg) == IoTo(sk, rm, room, ev, arg)

\* socket.to(room).emit(ev, arg): the room except the socket itself
SocketTo(sk, rm, s, room, ev, arg) ==
  Emit(ev, room, (Members(rm, room) \ {s}) \cap ConnectedIn(sk), arg)

\* socket.emit(ev, arg): written only while the transport is open
SocketEmit(sk, s, ev, arg) ==
  Emit(ev, s, IF sk[s] = "connected" THEN {s} ELSE {}, arg)

Join_closed(sk, rm, s, room) ==
  IF room \in DOMAIN rm THEN [rm EXCEPT ![room] = @ \cup {s}] ELSE rm

\* socket.join(room); the join of a closed socket is a no-op
Join(sk, rm, s, room) ==
  IF sk[s] = "connected" /\ room \in DOMAIN rm
    THEN [rm EXCEPT ![room] = @ \cup {s}]
    ELSE rm

Leave_all(rm, s, room) == [r \in DOMAIN rm |-> rm[r] \ {s}]

\* socket.leave(room)
Leave(rm, s, room) ==
  IF room \in DOMAIN rm THEN [rm EXCEPT ![room] = @ \ {s}] ELSE rm

LeaveAll_none(rm, s) == rm

\* leaveAll() of the closing socket
LeaveAll(rm, s) == [r \in DOMAIN rm |-> rm[r] \ {s}]

\* the response of the REST endpoint: no socket receives it
HttpResponse(status, arg) == Emit("http", status, {}, arg)

(* ----------------------------- registry ------------------------------- *)

\* this.userSockets.get(u) || []
GetSockets_empty(reg, u) == <<>>

\* this.userSockets.get(u) || []
GetSockets(reg, u) == IF u \in DOMAIN reg THEN reg[u] ELSE <<>>

\* this.userSockets.set(u, list)
MapSet(reg, u, list) ==
  [k \in DOMAIN reg \cup {u} |-> IF k = u THEN list ELSE reg[k]]

MapDelete_keep(reg, u) == MapSet(reg, u, <<>>)

\* this.userSockets.delete(u)
MapDelete(reg, u) == [k \in DOMAIN reg \ {u} |-> reg[k]]

Without_all(list, s) == <<>>

\* userSockets.filter(id => id !== socket.id)
Without(list, s) == SelectSeq(list, LAMBDA id : id # s)

\* getOnlineUsers(): Array.from(this.userSockets.keys())
getOnlineUsers == DOMAIN userSockets

\* isUserOnline(userId): this.userSockets.has(userId)
isUserOnline(u) == u \in DOMAIN userSockets

\* emitUserStatus(userId, status): io.emit('user-status', {userId, status})
emitUserStatus(sk, u, status) ==
  IoEmit(sk, "user-status", [userId |-> u, status |-> status])

\* what the last step was: operation, socket, argument
Step(op, s, arg) == [op |-> op, sock |-> s, arg |-> arg]

NoToken == [kind |-> "unset", id |-> "-"]

(* ------------------------------- Init --------------------------------- *)

\* the server after construction: no socket has connected
Init ==
  /\ sock = [s \in SocketIds |-> "new"]
  /\ token = [s \in SocketIds |-> NoToken]
  /\ userId = [s \in SocketIds |-> NoUser]
  /\ userSockets = <<>>
  /\ rooms = [r \in RoomNames |-> {}]
  /\ \E ms \in {{Creator}, ExistingUsers} :
       groups = [g \in GroupIds |-> [exists |-> TRUE, members |-> ms]]
  /\ messages = <<>>
  /\ tasks = {}
  /\ out = <<>>
  /\ last = Step("init", "-", "-")
  /\ dups = 0

\* the registry and the rooms once the sockets of `who` have connected, in
\* the order of their ids
RegistryOf(who) ==
  [u \in {who[s] : s \in DOMAIN who} |->
     SelectSeq(<<"s1", "s2", "s3">>, LAMBDA s : s \in DOMAIN who /\ who[s] = u)]

RoomsOf(who) ==
  [r \in RoomNames |-> {s \in DOMAIN who : r = s \/ r = who[s]}]

\* the server with s1 and s2 connected and nothing else done: s1 is a socket
\* of the creator, s2 one of the other user; s3 has not connected yet
InitLive ==
  /\ LET who == [s \in {"s1", "s2"} |-> IF s = "s1" THEN "u1" ELSE "u2"]
     IN /\ sock = [s \in SocketIds |-> IF s \in DOMAIN who THEN "connected" ELSE "new"]
        /\ token = [s \in SocketIds |-> IF s \in DOMAIN who
                                          THEN [kind |-> "signed", id |-> who[s]]
                                          ELSE NoToken]
        /\ userId = [s \in SocketIds |-> IF s \in DOMAIN who THEN who[s] ELSE NoUser]
        /\ userSockets = RegistryOf(who)
        /\ rooms = RoomsOf(who)
  /\ \E ms \in {{Creator}, ExistingUsers} :
       groups = [g \in GroupIds |-> [exists |-> TRUE, members |-> ms]]
  /\ messages = <<>>
  /\ tasks = {}
  /\ out = <<>>
  /\ last = Step("init", "-", "-")
  /\ dups = 0

(* ----------------------- handshake and registry ----------------------- *)

NextSocketId(s) == /\ sock[s] = "new"
                   /\ \A x \in SocketIds : RankBefore(x, s) => sock[x] # "new"

\* jwt.verify(token, secret): the payload of a signed token, a throw otherwise
Verifies(tok) == tok.kind = "signed"

findUser_any(u) == TRUE

findUser_online(u) == u \in DOMAIN userSockets

\* User.findById(id): whether a document is returned
findUser(u) == u \in ExistingUsers

\* setupSocketAuth, up to the await: the token is read and verified
Handshake(s, tok) ==
  /\ NextSocketId(s)
  /\ token' = [token EXCEPT ![s] = tok]
  /\ IF tok.kind # "none" /\ Verifies(tok)
       THEN /\ sock' = [sock EXCEPT ![s] = "auth"]
            /\ last' = Step("handshake", s, "-")
       ELSE /\ sock' = [sock EXCEPT ![s] = "refused"]
            /\ last' = Step("refused", s, "-")
  /\ out' = <<>>
  /\ UNCHANGED <<userId, userSockets, rooms, groups, messages, tasks, dups>>

\* the 'connection' handler: registry push, personal room, online status
Register(s, u) ==
  LET sk == [sock EXCEPT ![s] = "connected"]
      rm == [rooms EXCEPT ![s] = @ \cup {s}]
  IN /\ sock' = sk
     /\ userId' = [userId EXCEPT ![s] = u]
     /\ userSockets' = MapSet(userSockets, u, Append(GetSockets(userSockets, u), s))
     /\ rooms' = Join(sk, rm, s, u)
     /\ out' = <<emitUserStatus(sk, u, "online")>>
     /\ last' = Step("connection", s, "-")

\* setupSocketAuth after User.findById returned (dbOk = FALSE: it rejected),
\* then the connection event
Authenticate(s, dbOk) ==
  /\ sock[s] = "auth"
  /\ IF dbOk /\ findUser(token[s].id)
       THEN Register(s, token[s].id)
       ELSE /\ sock' = [sock EXCEPT ![s] = "refused"]
            /\ out' = <<>>
            /\ last' = Step("refused", s, "-")
            /\ UNCHANGED <<userId, userSockets, rooms>>
  /\ UNCHANGED <<token, groups, messages, tasks, dups>>

\* the body of the 'disconnect' handler for socket s of user u
Unregister(sk, s, u) ==
  LET updatedSockets == Without(GetSockets(userSockets, u), s)
  IN IF Len(updatedSockets) > 0
       THEN /\ userSockets' = MapSet(userSockets, u, updatedSockets)
            /\ out' = <<>>
       ELSE /\ userSockets' = MapDelete(userSockets, u)
            /\ out' = <<emitUserStatus(sk, u, "offline")>>

\* transport close of a connected socket: leaveAll, then the handler; the
\* step records whether the socket sat in a group room when it closed
Disconnect(s) ==
  /\ sock[s] = "connected"
  /\ LET sk == [sock EXCEPT ![s] = "closed"]
     IN /\ sock' = sk
        /\ rooms' = LeaveAll(rooms, s)
        /\ Unregister(sk, s, userId[s])
  /\ last' = Step("disconnect", s,
                   IF \E g \in GroupIds : s \in rooms[GroupRoom(g)]
                     THEN "joined" ELSE "-")
  /\ UNCHANGED <<token, userId, groups, messages, tasks, dups>>

\* the 'disconnect' handler run once more for a socket that has closed
DuplicateDisconnect(s) ==
  /\ sock[s] = "closed"
  /\ userId[s] # NoUser
  /\ dups < MaxDuplicates
  /\ dups' = dups + 1
  /\ Unregister(sock, s, userId[s])
  /\ last' = Step("disconnect-again", s, "-")
  /\ UNCHANGED <<sock, token, userId, rooms, groups, messages, tasks>>

\* the transport closes while the handshake is still being resolved
Abort(s) ==
  /\ sock[s] = "auth"
  /\ sock' = [sock EXCEPT ![s] = "closed"]
  /\ out' = <<>>
  /\ last' = Step("abort", s, "-")
  /\ UNCHANGED <<token, userId, userSockets, rooms, groups, messages, tasks, dups>>

(* --------------------------- collaborators ---------------------------- *)

Absent == "undefined"

\* mongoose.Types.ObjectId.isValid(value)
isValidObjectId(v) == v \in ObjectIds

\* String.prototype.trim on the contents the clients send
Trim(c) == IF c = " " THEN "" ELSE c

\* createMessageSchema.parse(data): the parsed object, or ok = FALSE (ZodError)
createMessageSchema(data) ==
  LET contentOk == data.content # ""
      receiverOk == data.receiver = Absent \/ isValidObjectId(data.receiver)
      groupOk == data.group = Absent \/ isValidObjectId(data.group)
      either == data.receiver # Absent \/ data.group # Absent
      notBoth == ~(data.receiver # Absent /\ data.group # Absent)
  IN [ok |-> contentOk /\ receiverOk /\ groupOk /\ either /\ notBoth,
      content |-> Trim(data.content),
      receiver |-> data.receiver,
      group |-> data.group]

NotFound == "Group not found"
NotMember == "You are not a member of this group"

\* whether the document of group g lists u in members
IsMember(gs, g, u) == g \in GroupIds /\ gs[g].exists /\ u \in gs[g].members

MembershipCheck_exists(gs, g, u) ==
  IF ~isValidObjectId(g) THEN "throw"
  ELSE IF ~(g \in GroupIds /\ gs[g].exists) THEN NotFound
  ELSE "ok"

\* Group.findById(g) followed by group.members.includes(u)
MembershipCheck(gs, g, u) ==
  IF ~isValidObjectId(g) THEN "throw"
  ELSE IF ~(g \in GroupIds /\ gs[g].exists) THEN NotFound
  ELSE IF u \notin gs[g].members THEN NotMember
  ELSE "ok"

\* MessageService.sendMessage up to Message.create: "ok" or the Error thrown
SendChecks(gs, sender, receiver, group) ==
  IF receiver = Absent /\ group = Absent
    THEN "Either receiver or group must be provided"
  ELSE IF receiver # Absent /\ group # Absent
    THEN "Message cannot have both receiver and group"
  ELSE IF receiver # Absent
    THEN (IF findUser(receiver) THEN "ok" ELSE "Receiver not found")
  ELSE MembershipCheck(gs, group, sender)

\* the document Message.create stores
NewMessage(id, sender, content, receiver, group) ==
  [id |-> id, content |-> content, sender |-> sender,
   receiver |-> receiver, group |-> group]

NoMsg == NewMessage(0, "-", "", Absent, Absent)

CreateValid_any(content) == TRUE

\* the schema validation of Message.create: content is required
CreateValid(content) == content # ""

Proceeds_always(res) == TRUE

\* an await that resolved lets the handler go on; a rejection enters its catch
Proceeds(res) == res = "ok"

\* formattedMessage of the handlers with its isOwn flag
Formatted(m, isOwn) == [id |-> m.id, text |-> m.content, sender |-> m.sender,
                        groupId |-> Absent, isOwn |-> isOwn]

ErrorArg(text) == [message |-> text]

\* emitDirectMessage(senderId, receiverId, message)
emitDirectMessage(sk, rm, senderId, receiverId, m) ==
  <<IoTo(sk, rm, senderId, "direct-message", Formatted(m, TRUE)),
    IoTo(sk, rm, receiverId, "direct-message", Formatted(m, FALSE))>>

\* emitGroupMessage(groupId, message): the message is spread as it was built
emitGroupMessage(sk, rm, groupId, m, isOwn) ==
  <<IoTo(sk, rm, GroupRoom(groupId), "group-message",
         [Formatted(m, isOwn) EXCEPT !.groupId = groupId])>>

(* ------------------------------ commands ------------------------------ *)

CanReceive_early(s) == sock[s] \in {"auth", "connected"}

\* the handlers are attached in the 'connection' callback: only packets of a
\* connected socket reach them
CanReceive(s) == sock[s] = "connected"

TaskOf(id) == CHOOSE t \in tasks : t.id = id

TaskIds == {t.id : t \in tasks}

\* a handler can start while fewer than MaxTasks are suspended
FreeId == CHOOSE n \in 1..MaxTasks : n \notin TaskIds

\* send handlers suspended before Message.create
Unsaved == {t \in tasks : t.kind = "send" /\ t.pc = "find"}

\* payloads of send-message and of POST /api/messages
Contents == {"hi", ""}
SendData == [content : Contents,
             receiver : {Absent, "u1", "u2", "u9", "zz"},
             group : {Absent, "g1", "zz"}]

\* arguments of join-group: a group, and an id of no group
JoinArgs == {"g1", "u9"}

\* arguments of leave-group
LeaveArgs == {"g1"}

Task(id, kind, via, s, u, res, p) ==
  [id |-> id, kind |-> kind, via |-> via, sock |-> s, user |-> u, pc |-> "find",
   res |-> res, content |-> p.content, receiver |-> p.receiver,
   group |-> p.group, msg |-> NoMsg]

\* join-group up to the await of Group.findById
JoinBegin(s, g) ==
  /\ CanReceive(s)
  /\ Cardinality(tasks) < MaxTasks
  /\ IF userId[s] = NoUser
       THEN /\ out' = <<SocketEmit(sock, s, "error", ErrorArg("Authentication required"))>>
            /\ last' = Step("join-unauthenticated", s, "-")
            /\ UNCHANGED tasks
       ELSE /\ tasks' = tasks \cup
                 {Task(FreeId, "join", "ws", s, userId[s],
                       MembershipCheck(groups, g, userId[s]),
                       [content |-> "", receiver |-> Absent, group |-> g])}
            /\ out' = <<>>
            /\ last' = Step("join-begin", s, "-")
  /\ UNCHANGED <<sock, token, userId, userSockets, rooms, groups, messages, dups>>

JoinRooms_always(res, sk, rm, s, room) == Join(sk, rm, s, room)

\* the rooms after join-group resumed with the outcome res of the check
JoinRooms(res, sk, rm, s, room) ==
  IF res = "ok" THEN Join(sk, rm, s, room) ELSE rm

\* what join-group emits after it resumed
JoinEmits(res, sk, rm, s, u, g) ==
  IF res = "ok"
    THEN <<SocketTo(sk, rm, s, GroupRoom(g), "user-joined-group",
                    [userId |-> u, groupId |-> g])>>
    ELSE <<SocketEmit(sk, s, "error",
                      ErrorArg(IF res = "throw" THEN "Failed to join group" ELSE res))>>

\* join-group after the await; dbOk = FALSE: the query rejected
JoinResume(id, dbOk) ==
  /\ id \in TaskIds
  /\ LET t == TaskOf(id)
         res == IF dbOk THEN t.res ELSE "throw"
     IN /\ t.kind = "join"
        /\ tasks' = tasks \ {t}
        /\ rooms' = JoinRooms(res, sock, rooms, t.sock, GroupRoom(t.group))
        /\ out' = JoinEmits(res, sock, rooms', t.sock, t.user, t.group)
        /\ last' = IF res = "ok" THEN Step("join-ok", t.sock, t.group)
                            ELSE Step("join-denied", t.sock, res)
  /\ UNCHANGED <<sock, token, userId, userSockets, groups, messages, dups>>

\* leave-group: no await
LeaveGroup(s, g) ==
  /\ CanReceive(s)
  /\ rooms' = Leave(rooms, s, GroupRoom(g))
  /\ out' = <<SocketTo(sock, rooms', s, GroupRoom(g), "user-left-group",
                       [userId |-> userId[s], groupId |-> g])>>
  /\ last' = Step("leave", s, g)
  /\ UNCHANGED <<sock, token, userId, userSockets, groups, messages, tasks, dups>>

\* send-message up to the first await inside MessageService.sendMessage
SendBegin(s, data) ==
  /\ CanReceive(s)
  /\ Cardinality(tasks) < MaxTasks
  /\ Len(messages) + Cardinality(Unsaved) < MaxMessages
  /\ LET p == createMessageSchema(data)
     IN IF userId[s] = NoUser \/ ~p.ok
          THEN /\ out' = <<SocketEmit(sock, s, "error",
                            ErrorArg(IF userId[s] = NoUser
                                       THEN "Authentication required"
                                       ELSE "ZodError"))>>
               /\ last' = Step("send-invalid", s, "ws")
               /\ UNCHANGED tasks
          ELSE /\ tasks' = tasks \cup
                    {Task(FreeId, "send", "ws", s, userId[s],
                          SendChecks(groups, userId[s], p.receiver, p.group), p)}
               /\ out' = <<>>
               /\ last' = Step("send-begin", s, "ws")
  /\ UNCHANGED <<sock, token, userId, userSockets, rooms, groups, messages, dups>>

\* POST /api/messages of the authenticated user u, up to the first await
RestSendBegin(u, data) ==
  /\ Cardinality(tasks) < MaxTasks
  /\ Len(messages) + Cardinality(Unsaved) < MaxMessages
  /\ LET p == createMessageSchema(data)
     IN IF ~p.ok
          THEN /\ out' = <<HttpResponse("400", ErrorArg("Validation error"))>>
               /\ last' = Step("send-invalid", "-", "rest")
               /\ UNCHANGED tasks
          ELSE /\ tasks' = tasks \cup
                    {Task(FreeId, "send", "rest", "-", u,
                          SendChecks(groups, u, p.receiver, p.group), p)}
               /\ out' = <<>>
               /\ last' = Step("send-begin", "-", "rest")
  /\ UNCHANGED <<sock, token, userId, userSockets, rooms, groups, messages, dups>>

\* the outcome of MessageService.sendMessage for the suspended handler t
PersistOutcome(t, dbOk) ==
  IF ~dbOk THEN "Database error"
  ELSE IF t.res = "throw" THEN "Cast to ObjectId failed"
  ELSE IF t.res # "ok" THEN t.res
  ELSE IF ~CreateValid(t.content) THEN "Message validation failed"
  ELSE "ok"

\* the catch block of the handler, or of the controller
SendError(sk, t, res) ==
  IF t.via = "ws" THEN <<SocketEmit(sk, t.sock, "error", ErrorArg(res))>>
  ELSE <<HttpResponse("error", ErrorArg(res))>>

\* the checks of the service are answered and Message.create runs;
\* dbOk = FALSE: one of the queries rejected
SendPersist(id, dbOk) ==
  /\ id \in TaskIds
  /\ LET t == TaskOf(id)
         res == PersistOutcome(t, dbOk)
         doc == NewMessage(Len(messages) + 1, t.user, t.content, t.receiver, t.group)
     IN /\ t.kind = "send" /\ t.pc = "find"
        /\ messages' = IF res = "ok" THEN Append(messages, doc) ELSE messages
        /\ tasks' = (tasks \ {t}) \cup
                      (IF Proceeds(res)
                         THEN {[t EXCEPT !.pc = "populate", !.msg = doc]}
                         ELSE {})
        /\ out' = IF res = "ok" THEN <<>> ELSE SendError(sock, t, res)
        /\ last' = Step(IF res = "ok" THEN "send-persisted" ELSE "send-failed",
                        t.sock, t.via)
  /\ UNCHANGED <<sock, token, userId, userSockets, rooms, groups, dups>>

\* what the handler emits once sendMessage returned the populated document:
\* the delivery, then the acknowledgement (message-sent on the socket, the
\* 201 response of the endpoint)
Delivery(sk, rm, t) ==
  LET m == t.msg
      own == t.via = "rest"
  IN (IF m.receiver # Absent
        THEN emitDirectMessage(sk, rm, t.user, m.receiver, m)
        ELSE emitGroupMessage(sk, rm, m.group, m, own))
     \o (IF t.via = "ws"
           THEN <<SocketEmit(sk, t.sock, "message-sent", Formatted(m, TRUE))>>
           ELSE <<HttpResponse("201", Formatted(m, TRUE))>>)

\* message.populate is answered and sendMessage returns: format, emit,
\* acknowledge; dbOk = FALSE: populate rejected, sendMessage throws after
\* the document was created and the handler's catch reports the error
SendDeliver(id, dbOk) ==
  /\ id \in TaskIds
  /\ LET t == TaskOf(id)
     IN /\ t.kind = "send" /\ t.pc = "populate"
        /\ tasks' = tasks \ {t}
        /\ out' = IF dbOk THEN Delivery(sock, rooms, t)
                          ELSE SendError(sock, t, "Database error")
        /\ last' = Step(IF dbOk THEN "send-delivered" ELSE "send-unpopulated",
                        t.sock, t.via)
  /\ UNCHANGED <<sock, token, userId, userSockets, rooms, groups, messages, dups>>

(* ------------------- pipelined sends of one socket -------------------- *)

\* the handlers in flight were started one after the other and none of them
\* has finished: their ids are in the order of their calls
InCallOrder == TaskIds = 1..Cardinality(tasks)

\* send-message handled while earlier send-message commands of the same
\* socket are suspended: the handler is async and nothing queues the commands
SendPipelined(s, data) ==
  /\ CanReceive(s)
  /\ userId[s] # NoUser
  /\ tasks # {}
  /\ \A t \in tasks : t.kind = "send" /\ t.via = "ws" /\ t.sock = s
  /\ InCallOrder
  /\ Cardinality(tasks) < MaxPipelined
  /\ Len(messages) + Cardinality(Unsaved) < MaxPipelined
  /\ LET p == createMessageSchema(data)
     IN /\ p.ok
        /\ tasks' = tasks \cup
             {Task(Cardinality(tasks) + 1, "send", "ws", s, userId[s],
                   SendChecks(groups, userId[s], p.receiver, p.group), p)}
  /\ out' = <<>>
  /\ last' = Step("send-begin", s, "ws")
  /\ UNCHANGED <<sock, token, userId, userSockets, rooms, groups, messages, dups>>

(* ---------------------- typing and read receipts ---------------------- *)

\* the argument of typing-start / typing-stop: an object with two optional
\* fields, or no object at all (the client emitted the event without one)
TypingData == [object : {TRUE}, receiverId : {Absent, "u1", "u2"},
               groupId : {Absent, "g1"}]
              \cup {[object |-> FALSE, receiverId |-> Absent, groupId |-> Absent]}

\* typing-start -> user-typing, typing-stop -> user-stopped-typing
TypingSignal(cmd) == IF cmd = "typing-start" THEN "user-typing" ELSE "user-stopped-typing"

\* the room the typing handlers address: data.receiverId, else the group room
TypingRoom(data) ==
  IF data.receiverId # Absent THEN data.receiverId
  ELSE IF data.groupId # Absent THEN GroupRoom(data.groupId)
  ELSE "-"

\* an exception that leaves a listener reaches process.on('uncaughtException'),
\* which calls process.exit(1): every transport is gone, no handler resumes
\* and the memory of the process, registry and rooms, is lost
ProcessExit(s, cmd) ==
  /\ sock' = [x \in SocketIds |-> "closed"]
  /\ tasks' = {}
  /\ userSockets' = <<>>
  /\ rooms' = [r \in DOMAIN rooms |-> {}]
  /\ out' = <<>>
  /\ last' = Step("process-exit", s, cmd)
  /\ UNCHANGED <<token, userId, groups, messages, dups>>

\* typing-start / typing-stop: synchronous listeners without try/catch; the
\* read of data.receiverId throws when data is no object
Typing(s, cmd, data) ==
  /\ CanReceive(s)
  /\ IF ~data.object
       THEN ProcessExit(s, cmd)
       ELSE /\ out' = IF TypingRoom(data) = "-" THEN <<>>
                      ELSE <<SocketTo(sock, rooms, s, TypingRoom(data), TypingSignal(cmd),
                                      [userId |-> userId[s], groupId |-> data.groupId,
                                       type |-> IF data.receiverId # Absent
                                                  THEN "direct" ELSE "group"])>>
            /\ last' = Step(cmd, s, TypingRoom(data))
            /\ UNCHANGED <<sock, token, userId, userSockets, rooms, groups,
                           messages, tasks, dups>>

\* the argument of mark-messages-read: no object, ids of which one does not
\* cast to an ObjectId, or ids that cast
ReadData == {"undefined", "zz", "ids"}

ReadFailed == "Failed to mark messages as read"

\* mark-messages-read up to the await of markMessagesAsRead; a throw before
\* it is caught by the handler
MarkReadBegin(s, data) ==
  /\ CanReceive(s)
  /\ Cardinality(tasks) < MaxTasks
  /\ IF userId[s] = NoUser \/ data # "ids"
       THEN /\ out' = <<SocketEmit(sock, s, "error",
                          ErrorArg(IF userId[s] = NoUser THEN "Authentication required"
                                                         ELSE ReadFailed))>>
            /\ last' = Step("read-failed", s, data)
            /\ UNCHANGED tasks
       ELSE /\ tasks' = tasks \cup
                 {Task(FreeId, "read", "ws", s, userId[s], "ok",
                       [content |-> "", receiver |-> Absent, group |-> Absent])}
            /\ out' = <<>>
            /\ last' = Step("read-begin", s, data)
  /\ UNCHANGED <<sock, token, userId, userSockets, rooms, groups, messages, dups>>

\* mark-messages-read after the await; dbOk = FALSE: updateMany rejected
MarkReadResume(id, dbOk) ==
  /\ id \in TaskIds
  /\ LET t == TaskOf(id)
     IN /\ t.kind = "read"
        /\ tasks' = tasks \ {t}
        /\ out' = IF dbOk
                    THEN <<SocketEmit(sock, t.sock, "messages-marked-read", [success |-> TRUE])>>
                    ELSE <<SocketEmit(sock, t.sock, "error", ErrorArg(ReadFailed))>>
        /\ last' = Step(IF dbOk THEN "read-ok" ELSE "read-failed", t.sock, "ids")
  /\ UNCHANGED <<sock, token, userId, userSockets, rooms, groups, messages, dups>>

(* ----------------------- DELETE /api/messages/:id --------------------- *)

\* the :messageId of the request: 0 does not cast to an ObjectId, the others
\* do; MaxMessages + 1 is the id of no document
DeleteArgs == 0..(MaxMessages + 1)

isValidMessageId(mid) == mid # 0

\* Message.findById(mid): the document, or NoMsg for null
FindMessage(msgs, mid) ==
  IF \E i \in 1..Len(msgs) : msgs[i].id = mid
    THEN msgs[CHOOSE i \in 1..Len(msgs) : msgs[i].id = mid]
    ELSE NoMsg

MessageNotFound == "Message not found"
NotOwner == "You can only delete your own messages"

\* MessageService.getMessageById(mid), which the controller awaits first:
\* the populated document, or null
getMessageById(msgs, mid) == FindMessage(msgs, mid)

CheckDoc_any(doc, u) == IF doc = NoMsg THEN MessageNotFound ELSE "ok"

\* the tests on a looked-up document: it exists and u is its sender
CheckDoc(doc, u) ==
  IF doc = NoMsg THEN MessageNotFound
  ELSE IF doc.sender # u THEN NotOwner
  ELSE "ok"

\* MessageService.deleteMessage up to findByIdAndDelete: "ok" or the Error
DeleteChecks(msgs, mid, u) == CheckDoc(FindMessage(msgs, mid), u)

\* Message.findByIdAndDelete(mid)
DeleteDoc(msgs, mid) == SelectSeq(msgs, LAMBDA m : m.id # mid)

\* emitMessageDeleted(messageId, receiverId, groupId)
emitMessageDeleted(sk, rm, messageId, receiverId, groupId) ==
  IF receiverId # Absent
    THEN <<IoTo(sk, rm, receiverId, "message-deleted",
                [messageId |-> messageId, groupId |-> Absent])>>
  ELSE IF groupId # Absent
    THEN <<IoTo(sk, rm, GroupRoom(groupId), "message-deleted",
                [messageId |-> messageId, groupId |-> groupId])>>
  ELSE <<>>

\* deleteMessage of the controller for the authenticated user u, up to the
\* await of getMessageById, whose answer the handler keeps
DeleteBegin(u, mid) ==
  /\ Cardinality(tasks) < MaxTasks
  /\ IF ~isValidMessageId(mid)
       THEN /\ out' = <<HttpResponse("400", ErrorArg("Invalid message ID format"))>>
            /\ last' = Step("delete-invalid", "-", "rest")
            /\ UNCHANGED tasks
       ELSE /\ tasks' = tasks \cup
                 {[Task(FreeId, "delete", "rest", "-", u,
                        CheckDoc(getMessageById(messages, mid), u),
                        [content |-> "", receiver |-> Absent, group |-> Absent])
                     EXCEPT !.msg = [getMessageById(messages, mid) EXCEPT !.id = mid]]}
            /\ out' = <<>>
            /\ last' = Step("delete-begin", "-", "rest")
  /\ UNCHANGED <<sock, token, userId, userSockets, rooms, groups, messages, dups>>

\* the outcome of the request once its queries are answered: the checks of
\* the controller on its copy, then those of the service on the store
DeleteOutcome(t, msgs, dbOk) ==
  IF ~dbOk THEN "Database error"
  ELSE IF t.res # "ok" THEN t.res
  ELSE DeleteChecks(msgs, t.msg.id, t.user)

\* deleteMessage after getMessageById: 404 / 403 / next(error) of the
\* controller, or the call of MessageService.deleteMessage up to the answer
\* of Message.findById and the checks on it; findByIdAndDelete is then awaited
DeleteResume(id, dbOk) ==
  /\ id \in TaskIds
  /\ LET t == TaskOf(id)
         res == DeleteOutcome(t, messages, dbOk)
     IN /\ t.kind = "delete" /\ t.pc = "find"
        /\ IF res = "ok"
             THEN /\ tasks' = (tasks \ {t}) \cup {[t EXCEPT !.pc = "remove"]}
                  /\ out' = <<>>
                  /\ last' = Step("delete-checked", "-", "rest")
             ELSE /\ tasks' = tasks \ {t}
                  /\ out' = <<HttpResponse("error", ErrorArg(res))>>
                  /\ last' = Step("delete-failed", "-", res)
  /\ UNCHANGED <<sock, token, userId, userSockets, rooms, groups, messages, dups>>

\* Message.findByIdAndDelete is answered (null when the document is gone, an
\* Error only when the store rejects): the message-deleted signal for the
\* copy the controller kept, and the 200 response
DeleteCommit(id, dbOk) ==
  /\ id \in TaskIds
  /\ LET t == TaskOf(id)
     IN /\ t.kind = "delete" /\ t.pc = "remove"
        /\ tasks' = tasks \ {t}
        /\ messages' = IF dbOk THEN DeleteDoc(messages, t.msg.id) ELSE messages
        /\ out' = IF dbOk
                    THEN emitMessageDeleted(sock, rooms, t.msg.id, t.msg.receiver, t.msg.group)
                         \o <<HttpResponse("200", [success |-> TRUE])>>
                    ELSE <<HttpResponse("error", ErrorArg("Database error"))>>
        /\ last' = IF dbOk THEN Step("delete-ok", "-", "ok")
                           ELSE Step("delete-failed", "-", "Database error")
  /\ UNCHANGED <<sock, token, userId, userSockets, rooms, groups, dups>>

\* one more DELETE /api/messages/:messageId of user u for the message whose
\* deletion u has already requested, while the earlier requests are suspended
DeleteRepeated(u, mid) ==
  /\ tasks # {}
  /\ \A t \in tasks : t.kind = "delete" /\ t.user = u /\ t.msg.id = mid
  /\ Cardinality(tasks) < MaxRequests
  /\ isValidMessageId(mid)
  /\ tasks' = tasks \cup
       {[Task(CHOOSE n \in 1..MaxRequests : n \notin TaskIds, "delete", "rest", "-", u,
              CheckDoc(getMessageById(messages, mid), u),
              [content |-> "", receiver |-> Absent, group |-> Absent])
           EXCEPT !.msg = [getMessageById(messages, mid) EXCEPT !.id = mid]]}
  /\ out' = <<>>
  /\ last' = Step("delete-begin", "-", "rest")
  /\ UNCHANGED <<sock, token, userId, userSockets, rooms, groups, messages, dups>>

(* ------------------------ group membership ---------------------------- *)

\* GroupService.removeMember: the creator cannot be removed
RemoveMember(g, u) ==
  /\ groups[g].exists
  /\ u \in groups[g].members
  /\ u # Creator
  /\ groups' = [groups EXCEPT ![g].members = @ \ {u}]
  /\ out' = <<>>
  /\ last' = Step("membership", "-", "-")
  /\ UNCHANGED <<sock, token, userId, userSockets, rooms, messages, tasks, dups>>

\* GroupService.addMembers
AddMember(g, u) ==
  /\ groups[g].exists
  /\ u \notin groups[g].members
  /\ groups' = [groups EXCEPT ![g].members = @ \cup {u}]
  /\ out' = <<>>
  /\ last' = Step("membership", "-", "-")
  /\ UNCHANGED <<sock, token, userId, userSockets, rooms, messages, tasks, dups>>

\* GroupService.deleteGroup, by the creator
DeleteGroup(g) ==
  /\ groups[g].exists
  /\ groups' = [groups EXCEPT ![g].exists = FALSE]
  /\ out' = <<>>
  /\ last' = Step("membership", "-", "-")
  /\ UNCHANGED <<sock, token, userId, userSockets, rooms, messages, tasks, dups>>

(* ------------------------------ Next ---------------------------------- *)

\* connections opening and closing
NextPresence ==
  \/ \E s \in SocketIds, tok \in Tokens : Handshake(s, tok)
  \/ \E s \in SocketIds, dbOk \in BOOLEAN : Authenticate(s, dbOk)
  \/ \E s \in SocketIds : Disconnect(s)
  \/ \E s \in SocketIds : Abort(s)

\* connections opening and closing, with repeated disconnect signals
NextDup ==
  \/ \E s \in SocketIds, tok \in Tokens : Handshake(s, tok)
  \/ \E s \in SocketIds, dbOk \in BOOLEAN : Authenticate(s, dbOk)
  \/ \E s \in SocketIds : Disconnect(s)
  \/ \E s \in SocketIds : Abort(s)
  \/ \E s \in SocketIds : DuplicateDisconnect(s)

Next ==
  \/ \E s \in SocketIds, tok \in Tokens : Handshake(s, tok)
  \/ \E s \in SocketIds, dbOk \in BOOLEAN : Authenticate(s, dbOk)
  \/ \E s \in SocketIds : Disconnect(s)
  \/ \E s \in SocketIds : Abort(s)
  \/ \E s \in SocketIds, g \in JoinArgs : JoinBegin(s, g)
  \/ \E id \in 1..MaxTasks, dbOk \in BOOLEAN : JoinResume(id, dbOk)
  \/ \E s \in SocketIds, g \in LeaveArgs : LeaveGroup(s, g)
  \/ \E s \in SocketIds, data \in SendData : SendBegin(s, data)
  \/ \E u \in ExistingUsers, data \in SendData : RestSendBegin(u, data)
  \/ \E id \in 1..MaxTasks, dbOk \in BOOLEAN : SendPersist(id, dbOk)
  \/ \E id \in 1..MaxTasks, dbOk \in BOOLEAN : SendDeliver(id, dbOk)
  \/ \E g \in GroupIds, u \in ExistingUsers : RemoveMember(g, u)
  \/ \E g \in GroupIds, u \in ExistingUsers : AddMember(g, u)

\* connections, join-group, leave-group and membership changes
NextRooms ==
  \/ \E s \in SocketIds, tok \in Tokens : Handshake(s, tok)
  \/ \E s \in SocketIds, dbOk \in BOOLEAN : Authenticate(s, dbOk)
  \/ \E s \in SocketIds : Disconnect(s)
  \/ \E s \in SocketIds : Abort(s)
  \/ \E s \in SocketIds, g \in JoinArgs : JoinBegin(s, g)
  \/ \E id \in 1..MaxTasks, dbOk \in BOOLEAN : JoinResume(id, dbOk)
  \/ \E s \in SocketIds, g \in LeaveArgs : LeaveGroup(s, g)
  \/ \E g \in GroupIds, u \in ExistingUsers : RemoveMember(g, u)
  \/ \E g \in GroupIds, u \in ExistingUsers : AddMember(g, u)

\* send-message with join-group, leave-group, membership changes and
\* disconnects, among the sockets that are connected
NextSend ==
  \/ \E s \in SocketIds : Disconnect(s)
  \/ \E s \in SocketIds, g \in JoinArgs : JoinBegin(s, g)
  \/ \E id \in 1..MaxTasks, dbOk \in BOOLEAN : JoinResume(id, dbOk)
  \/ \E s \in SocketIds, g \in LeaveArgs : LeaveGroup(s, g)
  \/ \E s \in SocketIds, data \in SendData : SendBegin(s, data)
  \/ \E id \in 1..MaxTasks, dbOk \in BOOLEAN : SendPersist(id, dbOk)
  \/ \E id \in 1..MaxTasks, dbOk \in BOOLEAN : SendDeliver(id, dbOk)
  \/ \E g \in GroupIds, u \in ExistingUsers : RemoveMember(g, u)
  \/ \E g \in GroupIds, u \in ExistingUsers : AddMember(g, u)

\* connections, join-group and leave-group while members are added and
\* removed and groups are deleted
NextMembership ==
  \/ \E s \in SocketIds, tok \in Tokens : Handshake(s, tok)
  \/ \E s \in SocketIds, dbOk \in BOOLEAN : Authenticate(s, dbOk)
  \/ \E s \in SocketIds : Disconnect(s)
  \/ \E s \in SocketIds : Abort(s)
  \/ \E s \in SocketIds, g \in JoinArgs : JoinBegin(s, g)
  \/ \E id \in 1..MaxTasks, dbOk \in BOOLEAN : JoinResume(id, dbOk)
  \/ \E s \in SocketIds, g \in LeaveArgs : LeaveGroup(s, g)
  \/ \E g \in GroupIds, u \in ExistingUsers : RemoveMember(g, u)
  \/ \E g \in GroupIds, u \in ExistingUsers : AddMember(g, u)
  \/ \E g \in GroupIds : DeleteGroup(g)

\* the payloads of SendData, and the same with a content of white space
WideSendData == {[d EXCEPT !.content = c] : d \in SendData, c \in Contents \cup {" "}}

\* send-message and POST /api/messages with every payload
NextValidate ==
  \/ \E s \in SocketIds, data \in WideSendData : SendBegin(s, data)
  \/ \E u \in ExistingUsers, data \in WideSendData : RestSendBegin(u, data)
  \/ \E id \in 1..MaxTasks, dbOk \in BOOLEAN : SendPersist(id, dbOk)
  \/ \E id \in 1..MaxTasks, dbOk \in BOOLEAN : SendDeliver(id, dbOk)

\* the payloads of send-message the schema rejects
BadSendData == {d \in SendData : ~createMessageSchema(d).ok}

\* every command of a socket short of a stored message: join, leave, typing,
\* read receipts and rejected sends
NextSignals ==
  \/ \E s \in SocketIds, tok \in Tokens : Handshake(s, tok)
  \/ \E s \in SocketIds, dbOk \in BOOLEAN : Authenticate(s, dbOk)
  \/ \E s \in SocketIds : Disconnect(s)
  \/ \E s \in SocketIds : Abort(s)
  \/ \E s \in SocketIds, g \in JoinArgs \cup {"zz"} : JoinBegin(s, g)
  \/ \E id \in 1..MaxTasks, dbOk \in BOOLEAN : JoinResume(id, dbOk)
  \/ \E s \in SocketIds, g \in LeaveArgs \cup {Absent} : LeaveGroup(s, g)
  \/ \E s \in SocketIds, cmd \in {"typing-start", "typing-stop"}, data \in TypingData :
       Typing(s, cmd, data)
  \/ \E s \in SocketIds, data \in ReadData : MarkReadBegin(s, data)
  \/ \E id \in 1..MaxTasks, dbOk \in BOOLEAN : MarkReadResume(id, dbOk)
  \/ \E s \in SocketIds, data \in BadSendData : SendBegin(s, data)

\* the payloads of the pipelined sends: a text for the other user, for the
\* sender itself, or for the group
OrderData == {d \in SendData : /\ d.content = "hi"
                                /\ \/ d.receiver \in ExistingUsers /\ d.group = Absent
                                   \/ d.receiver = Absent /\ d.group \in GroupIds}

\* send-message commands of the connected sockets, pipelined
NextOrder ==
  \/ \E s \in SocketIds, data \in OrderData : SendBegin(s, data)
  \/ \E s \in SocketIds, data \in OrderData : SendPipelined(s, data)
  \/ \E id \in 1..MaxPipelined, dbOk \in BOOLEAN : SendPersist(id, dbOk)
  \/ \E id \in 1..MaxPipelined, dbOk \in BOOLEAN : SendDeliver(id, dbOk)

\* deletions of stored messages, with connections and rooms changing
NextDelete ==
  \/ \E s \in SocketIds, tok \in Tokens : Handshake(s, tok)
  \/ \E s \in SocketIds, dbOk \in BOOLEAN : Authenticate(s, dbOk)
  \/ \E s \in SocketIds : Disconnect(s)
  \/ \E s \in SocketIds : Abort(s)
  \/ \E s \in SocketIds, g \in JoinArgs : JoinBegin(s, g)
  \/ \E id \in 1..MaxTasks, dbOk \in BOOLEAN : JoinResume(id, dbOk)
  \/ \E s \in SocketIds, g \in LeaveArgs : LeaveGroup(s, g)
  \/ \E u \in ExistingUsers, mid \in DeleteArgs : DeleteBegin(u, mid)
  \/ \E id \in 1..MaxTasks, dbOk \in BOOLEAN : DeleteResume(id, dbOk)
  \/ \E id \in 1..MaxTasks, dbOk \in BOOLEAN : DeleteCommit(id, dbOk)

\* delete requests, also several at once for one message, while connections
\* close and sockets join the group rooms
NextRepeat ==
  \/ \E s \in SocketIds : Disconnect(s)
  \/ \E s \in SocketIds : LeaveGroup(s, "g1")
  \/ \E u \in ExistingUsers, mid \in DeleteArgs : DeleteBegin(u, mid)
  \/ \E u \in ExistingUsers, mid \in DeleteArgs : DeleteRepeated(u, mid)
  \/ \E id \in 1..MaxRequests, dbOk \in BOOLEAN : DeleteResume(id, dbOk)
  \/ \E id \in 1..MaxRequests, dbOk \in BOOLEAN : DeleteCommit(id, dbOk)

\* the messages an earlier send can have left in the store: a direct message
\* of either user to the other, or a message of either user to the group
StoredMessages ==
  {NewMessage(1, u, "hi", v, Absent) : u \in ExistingUsers, v \in ExistingUsers}
  \cup {NewMessage(1, u, "hi", Absent, g) : u \in ExistingUsers, g \in GroupIds}

\* the server with s1 and s2 connected, as in InitLive, and one message stored
InitStored ==
  /\ LET who == [s \in {"s1", "s2"} |-> IF s = "s1" THEN "u1" ELSE "u2"]
     IN /\ sock = [s \in SocketIds |-> IF s \in DOMAIN who THEN "connected" ELSE "new"]
        /\ token = [s \in SocketIds |-> IF s \in DOMAIN who
                                          THEN [kind |-> "signed", id |-> who[s]]
                                          ELSE NoToken]
        /\ userId = [s \in SocketIds |-> IF s \in DOMAIN who THEN who[s] ELSE NoUser]
        /\ userSockets = RegistryOf(who)
        /\ rooms = RoomsOf(who)
  /\ \E ms \in {{Creator}, ExistingUsers} :
       groups = [g \in GroupIds |-> [exists |-> TRUE, members |-> ms]]
  /\ \E m \in StoredMessages : messages = <<m>>
  /\ tasks = {}
  /\ out = <<>>
  /\ last = Step("init", "-", "-")
  /\ dups = 0

\* the registry from construction, under connects and disconnects only
SpecPresence == Init /\ [][NextPresence]_vars

\* the registry from construction when disconnect signals may be repeated
SpecDup == Init /\ [][NextDup]_vars

\* admission and the group rooms, from the server with two sockets connected
SpecRooms == InitLive /\ [][NextRooms]_vars

\* the whole real-time layer, from the server with two sockets connected
Spec == InitLive /\ [][Next]_vars

\* the sends of the two connected sockets, with no further connection
SpecSend == InitLive /\ [][NextSend]_vars

\* the same, where every query of a suspended send-message is answered
SpecSendFair ==
  /\ SpecSend
  /\ WF_vars(\E id \in 1..MaxTasks, dbOk \in BOOLEAN : SendPersist(id, dbOk))
  /\ WF_vars(\E id \in 1..MaxTasks, dbOk \in BOOLEAN : SendDeliver(id, dbOk))

\* the group rooms while the groups collection changes
SpecMembership == InitLive /\ [][NextMembership]_vars

\* the validation of the payloads of the two connected sockets and of REST
SpecValidate == InitLive /\ [][NextValidate]_vars

\* the commands that store nothing, from the server with two sockets connected
SpecSignals == InitLive /\ [][NextSignals]_vars

\* several send-message commands of one socket in flight at the same time
SpecOrder == InitLive /\ [][NextOrder]_vars

\* DELETE /api/messages/:id on a store that holds one message
SpecDelete == InitStored /\ [][NextDelete]_vars

\* the deletions when a message can be requested to be deleted twice at once
SpecRepeat == InitStored /\ [][NextRepeat]_vars

(* ------------------------------ claims -------------------------------- *)

\* the registered live connections of identity u
LiveOf(u) == {s \in SocketIds : sock[s] = "connected" /\ userId[s] = u}

Range(list) == {list[i] : i \in 1..Len(list)}

\* number of user-status events with status st emitted for u in the emits o
StatusEvents(o, u, st) ==
  Len(SelectSeq(o, LAMBDA e : e.ev = "user-status"
                              /\ e.arg = [userId |-> u, status |-> st]))

EventsOf(o, ev) == SelectSeq(o, LAMBDA e : e.ev = ev)

\* C1: after any sequence of connects and disconnects an identity is online
\* (isUserOnline, and listed by getOnlineUsers) iff it has at least one
\* registered live connection, and the registry holds no identity with an
\* empty connection list.
C1_OnlineIffConnected ==
  \A u \in TokenSubjects :
    /\ isUserOnline(u) <=> LiveOf(u) # {}
    /\ u \in getOnlineUsers <=> LiveOf(u) # {}
    /\ u \in DOMAIN userSockets =>
         /\ Len(userSockets[u]) > 0
         /\ Range(userSockets[u]) = LiveOf(u)

\* an identity still online after one of its connections has closed
C1_Witness ==
  \E u \in ExistingUsers :
    /\ isUserOnline(u)
    /\ \E s \in SocketIds : sock[s] = "closed" /\ userId[s] = u

\* C2: with connections A and B of one identity registered, the disconnect
\* of A leaves the identity online and emits no offline event; the disconnect
\* that closes the last one emits exactly one offline event for the identity.
C2_OneOfflineEvent ==
  [][last'.op = "disconnect" =>
       LET s == last'.sock
           u == userId[s]
       IN IF LiveOf(u) \ {s} # {}
            THEN /\ u \in DOMAIN userSockets'
                 /\ StatusEvents(out', u, "offline") = 0
            ELSE /\ u \notin DOMAIN userSockets'
                 /\ StatusEvents(out', u, "offline") = 1]_vars

\* A has disconnected, B keeps the identity online and nothing was emitted
C2_Witness ==
  /\ last.op = "disconnect"
  /\ isUserOnline(userId[last.sock])
  /\ out = <<>>

\* C3: a repeated disconnect signal for a connection that is no longer in the
\* registry changes no registry state and emits no offline event; an offline
\* event is emitted only by the disconnect that empties the identity's list.
C3_DuplicateDisconnectNoOp ==
  [][/\ last'.op = "disconnect-again" =>
          /\ userSockets' = userSockets
          /\ StatusEvents(out', userId[last'.sock], "offline") = 0
     /\ \A u \in ExistingUsers :
          StatusEvents(out', u, "offline") > 0 =>
            u \in DOMAIN userSockets /\ u \notin DOMAIN userSockets']_vars

\* C4: an online event for an identity is emitted exactly by the registration
\* that takes its connection list from empty to non-empty.
C4_OnlineOnTransition ==
  [][\A u \in ExistingUsers :
       StatusEvents(out', u, "online") > 0 <=>
         (u \notin DOMAIN userSockets /\ u \in DOMAIN userSockets')]_vars

InRegistry(s) == \E u \in DOMAIN userSockets : s \in Range(userSockets[u])

InRoom(s) == \E r \in DOMAIN rooms : s \in rooms[r]

\* the handshake of s carried a token that verifies for an existing user
GoodToken(s) == token[s].kind = "signed" /\ token[s].id \in ExistingUsers

\* C5: a connection is admitted only if its token verifies and its subject
\* is an existing user; a refused connection is in no registry entry and in
\* no room, runs no handler and causes no event.
C5_RefusedNeverPresent ==
  /\ \A s \in SocketIds :
       /\ (sock[s] = "connected" \/ InRegistry(s) \/ InRoom(s)) =>
            GoodToken(s) /\ userId[s] = token[s].id
       /\ sock[s] = "refused" =>
            ~InRegistry(s) /\ ~InRoom(s) /\ userId[s] = NoUser
  /\ \A t \in tasks : t.via = "ws" => sock[t.sock] # "refused"
  /\ last.op = "refused" => out = <<>>
  /\ last.op = "connection" => GoodToken(last.sock)

\* a handshake whose token is signed for an id of no user has been refused
C5_Witness ==
  \E s \in SocketIds : sock[s] = "refused" /\ token[s].id = "u9"

\* the steps in which a command handler of a socket runs
HandlerOps == {"join-begin", "join-unauthenticated", "leave", "send-begin",
               "send-invalid"}

\* the handshake of s has completed successfully
Authenticated(s) ==
  /\ sock[s] \in {"connected", "closed"}
  /\ GoodToken(s)
  /\ userId[s] = token[s].id

\* C6: no command of a connection is handled before the handshake
\* authentication of that connection has completed successfully.
C6_NoCommandBeforeAuth ==
  /\ (last.op \in HandlerOps /\ last.sock \in SocketIds) => Authenticated(last.sock)
  /\ \A t \in tasks : t.via = "ws" => Authenticated(t.sock)

\* a command of s3, whose handshake ran in this behaviour, is being handled
C6_Witness ==
  last.op \in {"join-begin", "send-begin"} /\ last.sock = "s3"

\* C7: a join-group of an identity that is not a member of the group is
\* denied: no room changes, exactly one error event goes to the requesting
\* connection and no user-joined-group is emitted.
C7_DeniedJoin ==
  [][/\ last'.op = "join-begin" =>
          \A t \in tasks' \ tasks :
            ~IsMember(groups, t.group, t.user) => t.res # "ok"
     /\ last'.op = "join-denied" =>
          /\ rooms' = rooms
          /\ Len(out') = 1
          /\ out'[1].ev = "error"
          /\ out'[1].target = last'.sock
          /\ out'[1].rcpt \subseteq {last'.sock}
          /\ sock[last'.sock] = "connected" => out'[1].rcpt = {last'.sock}]_vars

\* a non-member was denied while another connection sits in the room
C7_Witness ==
  /\ last.op = "join-denied"
  /\ last.arg = NotMember
  /\ out[1].rcpt = {last.sock}
  /\ rooms[GroupRoom("g1")] # {}

\* the single user-joined-group of a successful join, sent to the others
JoinedSignal(o, s, room, before) ==
  /\ Len(o) = 1
  /\ o[1].ev = "user-joined-group"
  /\ o[1].rcpt = before \ {s}

\* C8 as stated: a join-group that passes the membership check adds the
\* connection to the room and signals every other connection in the room.
C8_JoinAddsAlways ==
  [][last'.op = "join-ok" =>
       LET s == last'.sock
           room == GroupRoom(last'.arg)
       IN /\ s \in rooms'[room]
          /\ JoinedSignal(out', s, room, rooms[room])]_vars

\* C8 amended: a join-group that passes the membership check adds the
\* connection to the room if the connection is still open (a connection that
\* closed during the check is not added and no room changes); in both cases
\* user-joined-group goes to every other connection in the room and never to
\* the joining connection.
C8_JoinAddsOpen ==
  [][last'.op = "join-ok" =>
       LET s == last'.sock
           room == GroupRoom(last'.arg)
       IN /\ sock[s] = "connected" =>
               rooms' = [rooms EXCEPT ![room] = @ \cup {s}]
          /\ sock[s] # "connected" => rooms' = rooms
          /\ JoinedSignal(out', s, room, rooms[room])
          /\ s \notin out'[1].rcpt]_vars

\* an open connection joined a room in which two others were sitting
C8_Witness ==
  /\ last.op = "join-ok"
  /\ sock[last.sock] = "connected"
  /\ last.sock \in rooms[GroupRoom(last.arg)]
  /\ Len(out) = 1
  /\ Cardinality(out[1].rcpt) = 2

\* C9: leave-group removes the connection from the room and signals the
\* remaining members; for a connection that is not in the room it changes no
\* room and delivers user-left-group to nobody.
C9_LeaveNoOp ==
  [][last'.op = "leave" =>
       LET s == last'.sock
           room == GroupRoom(last'.arg)
           left == EventsOf(out', "user-left-group")
       IN IF s \in rooms[room]
            THEN /\ rooms' = [rooms EXCEPT ![room] = @ \ {s}]
                 /\ Len(left) = 1
                 /\ left[1].rcpt = rooms[room] \ {s}
            ELSE /\ rooms' = rooms
                 /\ \A i \in 1..Len(left) : left[i].rcpt = {}]_vars

DeliveryEvents == {"direct-message", "group-message", "message-sent"}

\* the store holds the message of the envelope e
Persisted(e) ==
  \E i \in 1..Len(messages) :
    /\ messages[i].id = e.id
    /\ messages[i].sender = e.sender
    /\ messages[i].content = e.text

\* C10: a direct-message, group-message or message-sent event is emitted only
\* for a message that was persisted before; when the persistence of a send
\* fails nothing is stored, no delivery event is emitted and the originating
\* connection gets one error event.
C10_PersistBeforeDeliver ==
  [][/\ \A i \in 1..Len(out') :
          out'[i].ev \in DeliveryEvents => Persisted(out'[i].arg)
     /\ last'.op = "send-failed" =>
          /\ messages' = messages
          /\ \A i \in 1..Len(out') : out'[i].ev \notin DeliveryEvents
          /\ last'.arg = "ws" =>
               /\ Len(out') = 1
               /\ out'[1].ev = "error"
               /\ out'[1].target = last'.sock
               /\ sock[last'.sock] = "connected" => out'[1].rcpt = {last'.sock}]_vars

\* the store rejected a send of an open connection, which got the error
C10_Witness ==
  /\ last.op = "send-failed"
  /\ last.arg = "ws"
  /\ out[1].arg = ErrorArg("Database error")
  /\ out[1].rcpt = {last.sock}

\* the sockets some event ev of the emits o was written to
Reached(o, ev) == UNION {o[i].rcpt : i \in {j \in 1..Len(o) : o[j].ev = ev}}

\* the handler that finished, or moved on, in this step
Stepped(before, after) == before \ after

\* t is a direct send, t is a group send
IsDirect(t) == t.kind = "send" /\ t.receiver # Absent
IsGroupSend(t) == t.kind = "send" /\ t.receiver = Absent

\* the store holds the document m
Stored(m) == \E i \in 1..Len(messages) : messages[i] = m

\* C11: a successful direct send delivers the envelope to every live
\* connection of the sender and of the receiver, and every direct-message
\* event delivered to a connection carries isOwn = true iff that connection
\* belongs to the sender.
C11_DirectDelivery ==
  [][last'.op = "send-delivered" =>
       \A t \in Stepped(tasks, tasks') :
         IsDirect(t) =>
           /\ LiveOf(t.user) \cup LiveOf(t.receiver) \subseteq Reached(out', "direct-message")
           /\ \A i \in 1..Len(out') :
                out'[i].ev = "direct-message" =>
                  \A s \in out'[i].rcpt :
                    out'[i].arg.isOwn <=> userId[s] = t.user]_vars

\* C12: a direct send to an existing identity with no live connection passes
\* the checks of the service and fails only if the store itself rejects; its
\* delivery stores the message, writes the direct-message envelope to exactly
\* the sender's live connections, with isOwn = true, and emits no error.
C12_OfflineReceiver ==
  [][\A t \in Stepped(tasks' \cup tasks, tasks \cap tasks') :
       (IsDirect(t) /\ t.receiver \in ExistingUsers /\ LiveOf(t.receiver) = {}) =>
         /\ t.res = "ok"
         /\ (last'.op \in {"send-failed", "send-unpopulated"}
                             /\ t \in tasks /\ CreateValid(t.content)) =>
              \A i \in 1..Len(out') : out'[i].arg = ErrorArg("Database error")
         /\ last'.op = "send-delivered" =>
              /\ Stored(t.msg)
              /\ \A i \in 1..Len(out') : out'[i].ev # "error"
              /\ Reached(out', "direct-message") = LiveOf(t.user)
              /\ \A i \in 1..Len(out') :
                   (out'[i].ev = "direct-message" /\ out'[i].rcpt # {}) =>
                     out'[i].arg.isOwn]_vars

\* u1's socket got its own message to u2 while u2 has no live connection
C12_Witness ==
  /\ last.op = "send-delivered"
  /\ last.arg = "ws"
  /\ LiveOf("u2") = {}
  /\ Len(messages) = 1
  /\ messages[1].receiver = "u2"
  /\ Reached(out, "direct-message") = {last.sock}

\* C13: a group send of an identity that is not a member of the group fails
\* with the not-a-member error: no message is created, no group-message is
\* broadcast, no connection is closed and the sender's connection gets one
\* error event.
C13_NonMemberGroupSend ==
  [][/\ last'.op = "send-begin" =>
          \A t \in Stepped(tasks', tasks) :
            (IsGroupSend(t) /\ t.group \in GroupIds
               /\ ~IsMember(groups, t.group, t.user)) => t.res = NotMember
     /\ \A t \in Stepped(tasks, tasks') :
          (IsGroupSend(t) /\ t.res = NotMember) =>
            /\ last'.op = "send-failed"
            /\ messages' = messages
            /\ \A t2 \in tasks' : t2.id # t.id
            /\ \A i \in 1..Len(out') : out'[i].ev \notin DeliveryEvents
            /\ sock' = sock
            /\ t.via = "ws" =>
                 /\ Len(out') = 1
                 /\ out'[1].ev = "error"
                 /\ out'[1].target = t.sock
                 /\ sock[t.sock] = "connected" => out'[1].rcpt = {t.sock}]_vars

\* the open connection of a non-member got the not-a-member error
C13_Witness ==
  /\ last.op = "send-failed"
  /\ last.arg = "ws"
  /\ out[1].arg = ErrorArg(NotMember)
  /\ out[1].rcpt = {last.sock}
  /\ sock[last.sock] = "connected"
  /\ messages = <<>>

\* C14: with the sender's connection c1 and a connection c2 of another
\* identity both in the room of the group, a group send over c1 delivers the
\* group-message to c1 with isOwn = true and to c2 with isOwn = false, and
\* the store holds exactly one message for it.
C14_GroupEnvelopeFlags ==
  [][(last'.op = "send-delivered" /\ last'.arg = "ws") =>
       \A t \in Stepped(tasks, tasks') :
         LET room == rooms[GroupRoom(t.group)]
         IN (/\ IsGroupSend(t)
             /\ t.sock \in room
             /\ \E c2 \in room : userId[c2] # t.user) =>
              /\ \A c \in room :
                   \E i \in 1..Len(out') :
                     /\ out'[i].ev = "group-message"
                     /\ c \in out'[i].rcpt
                     /\ out'[i].arg.isOwn <=> c = t.sock
              /\ Cardinality({j \in 1..Len(messages) : messages[j].id = t.msg.id}) = 1]_vars

\* C15: a successful group send is stored and written as one group-message
\* to exactly the connections that are in the room of the group when it is
\* broadcast; group membership plays no part, so a member whose connections
\* are not in the room, the sender included, receives no group-message.
C15_RoomNotMembership ==
  [][last'.op = "send-delivered" =>
       \A t \in Stepped(tasks, tasks') :
         IsGroupSend(t) =>
           LET gm == EventsOf(out', "group-message")
           IN /\ Stored(t.msg)
              /\ Len(gm) = 1
              /\ gm[1].arg.id = t.msg.id
              /\ gm[1].rcpt = rooms[GroupRoom(t.group)]
              /\ Reached(out', "group-message") = rooms[GroupRoom(t.group)]]_vars

\* a member that never joined the room sent to the group over an open
\* connection: the message is stored, the room got it, the sender did not
C15_Witness ==
  /\ last.op = "send-delivered"
  /\ last.arg = "ws"
  /\ sock[last.sock] = "connected"
  /\ Len(messages) = 1
  /\ messages[1].group = "g1"
  /\ IsMember(groups, "g1", userId[last.sock])
  /\ last.sock \notin rooms[GroupRoom("g1")]
  /\ Reached(out, "group-message") # {}
  /\ last.sock \notin Reached(out, "group-message")

\* C16: the disconnect of the only connection of an identity emits its
\* offline event; a closed connection is in no room, and no event emitted
\* afterwards, a group-message included, is written to a closed connection.
C16_DisconnectLeavesRoom ==
  [][/\ last'.op = "disconnect" =>
          LET s == last'.sock
              u == userId[s]
          IN /\ \A r \in DOMAIN rooms' : s \notin rooms'[r]
             /\ LiveOf(u) = {s} => StatusEvents(out', u, "offline") = 1
     /\ \A s \in SocketIds :
          sock'[s] = "closed" => \A r \in DOMAIN rooms' : s \notin rooms'[r]
     /\ \A i \in 1..Len(out') :
          \A s \in out'[i].rcpt : sock'[s] = "connected"]_vars

\* the only connection of an identity closed while it sat in the room of g1,
\* and a group send to g1 is stored and about to be broadcast
C16_Witness ==
  /\ last.op = "disconnect"
  /\ last.arg = "joined"
  /\ LiveOf(userId[last.sock]) = {}
  /\ StatusEvents(out, userId[last.sock], "offline") = 1
  /\ \E t \in tasks : IsGroupSend(t) /\ t.group = "g1" /\ t.pc = "populate"

\* C17: typing-start and typing-stop store nothing and suspend nothing, and
\* write user-typing / user-stopped-typing to the connections in the room of
\* the target identity, or of the target group, and to no connection of the
\* sending identity.
C17_TypingExcludesSender ==
  [][last'.op \in {"typing-start", "typing-stop"} =>
       LET s == last'.sock
           sig == TypingSignal(last'.op)
       IN /\ messages' = messages
          /\ tasks' = tasks
          /\ \A i \in 1..Len(out') : out'[i].ev = sig
          /\ Reached(out', sig) = Members(rooms, last'.arg) \ LiveOf(userId[s])]_vars

\* the store holds the document m, in the messages msgs
StoredIn(msgs, m) == \E i \in 1..Len(msgs) : msgs[i] = m

\* C18: message-deleted is emitted for a message only in the step in which
\* the deletion of that message succeeded, for a requester who is its sender;
\* a delete request that fails (malformed id, not found, not the owner, the
\* store rejecting) emits no message-deleted and leaves the store as it was.
C18_DeletedAfterDeletion ==
  [][/\ last'.op = "delete-begin" =>
          \A t \in Stepped(tasks', tasks) :
            (FindMessage(messages, t.msg.id) = NoMsg
               \/ FindMessage(messages, t.msg.id).sender # t.user) => t.res # "ok"
     /\ \A i \in 1..Len(out') :
          out'[i].ev = "message-deleted" =>
            /\ last'.op = "delete-ok"
            /\ \E t \in Stepped(tasks, tasks') :
                 /\ t.kind = "delete"
                 /\ out'[i].arg.messageId = t.msg.id
                 /\ t.msg.sender = t.user
                 /\ ~StoredIn(messages', t.msg)
     /\ last'.op \in {"delete-failed", "delete-invalid"} =>
          /\ messages' = messages
          /\ Reached(out', "message-deleted") = {}
          /\ \A i \in 1..Len(out') : out'[i].ev = "http"]_vars

\* a user asked to delete a stored message of another user and was refused;
\* the message is still stored
C18_Witness ==
  /\ last.op = "delete-failed"
  /\ last.arg = NotOwner
  /\ Len(messages) = 1
  /\ out = <<HttpResponse("error", ErrorArg(NotOwner))>>

\* C19: of two send-message commands of one connection to the same target,
\* the one whose call and whose Message.create came first is delivered first:
\* when a message is delivered, no such earlier message is still undelivered.
C19_DeliveryInCallOrder ==
  [][last'.op = "send-delivered" =>
       \A t \in Stepped(tasks, tasks') :
         \A t2 \in tasks' :
           (/\ t2.kind = "send" /\ t2.via = "ws" /\ t.via = "ws"
            /\ t2.sock = t.sock
            /\ t2.receiver = t.receiver /\ t2.group = t.group
            /\ t2.pc = "populate")
             => ~(t2.id < t.id /\ t2.msg.id < t.msg.id)]_vars

\* the steps in which a handler ends in a failure
FailureOps == {"join-unauthenticated", "join-denied", "send-invalid", "read-failed"}

\* C20: whatever the command and its payload, a failure inside a handler ends
\* in an error event on the originating connection; it never ends the process
\* and closes no connection.
C20_FailuresRecovered ==
  [][/\ last'.op # "process-exit"
     /\ \A s \in SocketIds :
          (sock[s] = "connected" /\ sock'[s] # "connected") =>
            (last'.op = "disconnect" /\ last'.sock = s)
     /\ last'.op \in FailureOps =>
          /\ Len(out') = 1
          /\ out'[1].ev = "error"
          /\ out'[1].target = last'.sock]_vars

\* the message-sent and error events of the emits o addressed to socket s
Responses(o, s) ==
  SelectSeq(o, LAMBDA e : e.ev \in {"message-sent", "error"} /\ e.target = s)

\* the send-message handlers that were suspended and ended in this step
Finished(before, after) ==
  {t \in before : /\ t.kind = "send" /\ t.via = "ws"
                  /\ \A t2 \in after : t2.id # t.id}

\* C21: every send-message command handled on a connection gets, once the
\* store has answered, exactly one response addressed to that connection:
\* message-sent with the envelope and isOwn = true when the message was
\* persisted, an error event otherwise; no step before the end of the
\* handler responds, and every suspended handler ends.
C21_OneResponse ==
  /\ [][/\ \A t \in Finished(tasks, tasks') :
             LET r == Responses(out', t.sock)
             IN /\ Len(r) = 1
                /\ r[1].ev = "message-sent" <=> t.pc = "populate"
                /\ r[1].ev = "message-sent" =>
                     /\ r[1].arg.isOwn
                     /\ r[1].arg.id = t.msg.id
                     /\ StoredIn(messages', t.msg)
                /\ sock[t.sock] = "connected" => r[1].rcpt = {t.sock}
        /\ (last'.op = "send-invalid" /\ last'.arg = "ws") =>
             /\ Len(Responses(out', last'.sock)) = 1
             /\ Responses(out', last'.sock)[1].ev = "error"
        /\ last'.op \in {"send-begin", "send-persisted"} =>
             Responses(out', last'.sock) = <<>>]_vars
  /\ \A id \in 1..MaxTasks :
       (\E t \in tasks : t.id = id /\ t.kind = "send")
         ~> (\A t \in tasks : t.id # id)

\* the payload has no content once trimmed, or no target, or two targets
Unacceptable(data) ==
  \/ Trim(data.content) = ""
  \/ data.receiver = Absent /\ data.group = Absent
  \/ data.receiver # Absent /\ data.group # Absent

\* C22: a send-message whose content is empty, or that names neither a
\* receiver nor a group, or both, is rejected with an error event: it stores
\* nothing and no delivery event is emitted, whether the schema refuses it at
\* once or Message.create refuses it later; every stored message has content
\* and exactly one of receiver and group.
C22_InvalidSendRejected ==
  /\ [][/\ \A s \in SocketIds, data \in WideSendData :
             (Unacceptable(data) /\ SendBegin(s, data)) =>
               /\ messages' = messages
               /\ \A i \in 1..Len(out') : out'[i].ev \notin DeliveryEvents
               /\ \/ /\ tasks' = tasks
                     /\ Len(out') = 1
                     /\ out'[1].ev = "error"
                     /\ out'[1].target = s
                  \/ \E t \in tasks' \ tasks : t.content = "" /\ t.pc = "find"
        /\ \A u \in ExistingUsers, data \in WideSendData :
             (Unacceptable(data) /\ RestSendBegin(u, data)) =>
               /\ messages' = messages
               /\ \A i \in 1..Len(out') : out'[i].ev \notin DeliveryEvents
               /\ tasks' = tasks \/ \E t \in tasks' \ tasks : t.content = "" /\ t.pc = "find"
        /\ \A t \in Stepped(tasks, tasks') :
             (t.kind = "send" /\ t.content = "") =>
               /\ last'.op = "send-failed"
               /\ messages' = messages
               /\ \A t2 \in tasks' : t2.id # t.id
               /\ Len(out') = 1
               /\ out'[1].ev \in {"error", "http"}
               /\ t.via = "ws" => out'[1].ev = "error" /\ out'[1].target = t.sock]_vars
  /\ [](\A i \in 1..Len(messages) :
          /\ messages[i].content # ""
          /\ (messages[i].receiver = Absent) # (messages[i].group = Absent))

\* a content of white space passed the schema and was refused by
\* Message.create: the open connection got the error, nothing is stored
C22_Witness ==
  /\ last.op = "send-failed"
  /\ last.arg = "ws"
  /\ out[1].arg = ErrorArg("Message validation failed")
  /\ out[1].rcpt = {last.sock}
  /\ messages = <<>>

\* C23: whenever a connection is added to the room of a group, its identity
\* is a member of that group at that moment, whatever member removals and
\* group deletions are interleaved with the join-group commands.
C23_JoinedOnlyWhileMember ==
  [][\A g \in GroupIds :
       \A s \in rooms'[GroupRoom(g)] \ rooms[GroupRoom(g)] :
         IsMember(groups', g, userId[s])]_vars

\* C24: a group-message of a group is delivered only to connections whose
\* identity is a member of the group when it is delivered.
C24_GroupMessageToMembers ==
  [][\A i \in 1..Len(out') :
       out'[i].ev = "group-message" =>
         \A s \in out'[i].rcpt :
           IsMember(groups', out'[i].arg.groupId, userId[s])]_vars

\* the deliveries of the emits o: the event name, the receiving connection
\* and the isOwn flag it is given, without the acknowledgement of the request
RealTime(o) ==
  UNION {{<<o[i].ev, s, o[i].arg.isOwn>> : s \in o[i].rcpt} :
           i \in {j \in 1..Len(o) : o[j].ev \in {"direct-message", "group-message"}}}

\* the same request made through the other of the two channels: through
\* POST /api/messages, or through any connection of the sender
Counterparts(t) ==
  IF t.via = "ws"
    THEN {[t EXCEPT !.via = "rest", !.sock = "-"]}
    ELSE {[t EXCEPT !.via = "ws", !.sock = s] : s \in {x \in SocketIds : userId[x] = t.user}}

\* C25: a message sent through POST /api/messages and the same message sent
\* through send-message produce the same delivery events: the same event
\* names, recipients and isOwn flags, for direct and for group messages.
C25_RestSameAsSocket ==
  [][last'.op = "send-delivered" =>
       \A t \in Stepped(tasks, tasks') : \A c \in Counterparts(t) :
         RealTime(Delivery(sock, rooms, t)) = RealTime(Delivery(sock, rooms, c))]_vars

\* the connections registered for identity u in the registry reg
Registered(reg, u) == Range(GetSockets(reg, u))

\* C26: under every interleaving of connects and disconnects of one identity
\* no registry update is lost: a connect adds its connection to the entry and
\* keeps the others, a disconnect removes only its own connection and neither
\* removes the entry nor emits offline while another connection is registered,
\* and every open connection is registered.
C26_NoLostRegistryUpdate ==
  /\ [][/\ last'.op = "connection" =>
            \A u \in TokenSubjects :
              Registered(userSockets', u) =
                Registered(userSockets, u)
                  \cup (IF u = userId'[last'.sock] THEN {last'.sock} ELSE {})
        /\ last'.op = "disconnect" =>
            /\ \A u \in TokenSubjects :
                 Registered(userSockets', u) =
                   Registered(userSockets, u)
                     \ (IF u = userId[last'.sock] THEN {last'.sock} ELSE {})
            /\ Registered(userSockets, userId[last'.sock]) \ {last'.sock} # {} =>
                 /\ userId[last'.sock] \in DOMAIN userSockets'
                 /\ StatusEvents(out', userId[last'.sock], "offline") = 0]_vars
  /\ [](\A s \in SocketIds :
          sock[s] = "connected" => s \in Registered(userSockets, userId[s]))

\* a connection of an identity was registered after another of its
\* connections had closed and while a third one stayed registered
C26_Witness ==
  /\ last.op = "connection"
  /\ \E a, b \in SocketIds :
       /\ a # last.sock /\ b # last.sock /\ a # b
       /\ userId[a] = userId[last.sock] /\ sock[a] = "closed"
       /\ userId[b] = userId[last.sock]
       /\ Registered(userSockets, userId[last.sock]) = {b, last.sock}

\* C27: within one connection the commands are handled one at a time: the
\* handling of a command, its suspensions included, has finished before the
\* handling of the next command of that connection begins.
C27_OneCommandAtATime ==
  [][last'.op \in HandlerOps =>
       \A t \in tasks : ~(t.via = "ws" /\ t.sock = last'.sock)]_vars

\* C28: a connection that has closed, at whatever point of a suspended
\* join-group or send-message, is in no registry entry and in no room from
\* then on, and no handler that resumes later adds it to a room.
C28_ClosedInNoRoom ==
  /\ [](\A s \in SocketIds :
          sock[s] = "closed" => ~InRoom(s) /\ ~InRegistry(s))
  /\ [][\A s \in SocketIds : \A r \in DOMAIN rooms :
          sock[s] = "closed" => s \notin rooms'[r]]_vars

\* a join-group that passed its check has resumed on a connection that closed
\* while it was suspended
C28_Witness ==
  /\ last.op = "join-ok"
  /\ sock[last.sock] = "closed"
  /\ ~InRoom(last.sock)

\* C29: the message-deleted signal of a message is broadcast at most once,
\* also when several delete requests of its sender for it are in progress at
\* once: it is broadcast only in the step that removes the message from the
\* store, and a request that ends when the message is gone does not succeed.
C29_DeletedOnce ==
  [][/\ \A i \in 1..Len(out') :
          out'[i].ev = "message-deleted" =>
            /\ FindMessage(messages, out'[i].arg.messageId) # NoMsg
            /\ FindMessage(messages', out'[i].arg.messageId) = NoMsg
     /\ \A t \in Stepped(tasks, tasks') :
          (t.kind = "delete" /\ FindMessage(messages, t.msg.id) = NoMsg) =>
            /\ last'.op = "delete-failed"
            /\ EventsOf(out', "message-deleted") = <<>>]_vars

\* C30: the members of the personal room of an identity are exactly the
\* registered connections of that identity, whatever commands were handled,
\* and a direct-message event is delivered only to connections of the sender
\* or of the receiver of the message.
C30_PersonalRoomIsRegistry ==
  /\ [](\A u \in ExistingUsers :
          /\ Members(rooms, u) = Registered(userSockets, u)
          /\ \A s \in Members(rooms, u) : userId[s] = u)
  /\ [][\A i \in 1..Len(out') :
          out'[i].ev = "direct-message" =>
            /\ last'.op = "send-delivered"
            /\ \A t \in Stepped(tasks, tasks') :
                 \A s \in out'[i].rcpt : userId[s] \in {t.user, t.msg.receiver}]_vars

\* a direct message was delivered to its receiver while the connection of the
\* sender sat in a group room it had joined
C30_Witness ==
  /\ last.op = "send-delivered"
  /\ \E i \in 1..Len(out) :
       /\ out[i].ev = "direct-message"
       /\ out[i].rcpt # {}
       /\ \A s \in out[i].rcpt : userId[s] # out[i].arg.sender
  /\ \E s \in SocketIds :
       /\ userId[s] = out[1].arg.sender
       /\ s \in rooms[GroupRoom("g1")]

====
